---- MODULE Spec2Model ----
(***************************************************************************)
(* The resilience layer of health-article-mcp: the sliding-window rate     *)
(* limiter and the Redis cache of rate_limiter.py, and the retry wrapper   *)
(* of error_handlers.py.  The shared keyed store (Redis) is modelled by    *)
(* the commands the code issues: ZREMRANGEBYSCORE, ZADD, ZCARD, EXPIRE,    *)
(* GET, SET ... EX, SETEX, DEL, and by key expiry as the clock advances.   *)
(* A command queued on a pipeline gives back the Pipeline object.          *)
(* Further parts: Cache.generate_key, the rate_limit decorator around the  *)
(* cached decorator, the retry wrapper on the event loop, and the request  *)
(* handler process_workflow of main.py.                                    *)
(***************************************************************************)
EXTENDS Integers, Sequences, FiniteSets, TLC

VARIABLES
    now,             \* the clock read by time.time() and by the store
    store,           \* the shared keyed store: key -> entry
    max_requests,    \* RateLimiter.max_requests
    time_window,     \* RateLimiter.time_window
    rl_pc,           \* per task: position inside check_rate_limit
    rl_client,       \* per task: client_id of the call in flight
    rl_time,         \* per task: current_time of the call in flight
    rl_log,          \* finished check_rate_limit calls, in order of decision
    max_retries,     \* retry_with_backoff: its parameters
    initial_delay,
    max_delay,
    backoff_factor,
    rt_pc,           \* position of the retry wrapper
    retry,           \* the loop variable of the wrapper
    delay,           \* the wrapper's current delay
    last_exception,  \* the wrapper's last_exception
    rt_outcomes,     \* what each invocation of the wrapped function did
    rt_sleeps,       \* the delays slept, in order
    rt_raised,       \* the exception that left the wrapper, if any
    rt_returned,     \* the invocation whose result the wrapper returned, 0 if none
    default_ttl,     \* Cache.default_ttl
    cache_result,    \* what the last Cache call returned or raised
    cache_written,   \* the last Cache.set that wrote the store, until deleted
    cache_deleted,   \* the last Cache.delete, until its key is set again
    w_ttl,           \* cached(ttl): the decorator's ttl
    w_ready,         \* a request argument with app.state.redis_client is there
    w_pc,            \* per task: position inside the cached wrapper
    w_call,          \* per task: the call in flight
    w_last,          \* the call of the cached wrapper that finished last
    w_stored,        \* per inputs: when a finished call last stored its result
    fp_calls,        \* Cache.generate_key: the two calls it is given
    fp_keys,         \* Cache.generate_key: the keys it returned for them
    r_limiter,       \* app.state.rate_limiter is there
    r_pc,            \* per task: position inside rate_limit(cached(func))
    r_call,          \* per task: the resilient call in flight and its steps
    r_last,          \* the resilient call that finished last
    r_calls,         \* number of resilient calls begun
    el_wake,         \* when the time.sleep of the retry wrapper returns
    o_steps,         \* steps taken by the task of another request
    el_cancel,       \* the cancellation of the request of the retry wrapper
    p_pc,            \* process_workflow: where the request is
    p_req,           \* the body of the request
    p_fetch,         \* the call of fetch_article: none, running, returned, raised
    p_content,       \* content: the fetched text or the text of the request
    p_stage,         \* per analysis coroutine: idle, running, done, failed
    p_result,        \* per analysis coroutine: what it returned
    p_order,         \* the analysis coroutines in the order they finished
    p_response,      \* the HTTP response
    p_error          \* per stage: the message of the exception it raised

rlVars == <<max_requests, time_window, rl_pc, rl_client, rl_time, rl_log>>

rtVars == <<max_retries, initial_delay, max_delay, backoff_factor, rt_pc, retry,
            delay, last_exception, rt_outcomes, rt_sleeps, rt_raised, rt_returned>>

caVars == <<default_ttl, cache_result, cache_written, cache_deleted>>

wVars == <<w_ttl, w_ready, w_pc, w_call, w_last, w_stored>>

fpVars == <<fp_calls, fp_keys>>

rsVars == <<r_limiter, r_pc, r_call, r_last, r_calls>>

elVars == <<el_wake, o_steps, el_cancel>>

plVars == <<p_pc, p_req, p_fetch, p_content, p_stage, p_result, p_order, p_response,
           p_error>>

extVars == <<fpVars, rsVars, elVars, plVars>>

\* What the actions of one part leave unchanged in the other parts.
fpRest == <<rlVars, rtVars, caVars, wVars, rsVars, elVars, plVars>>

rsRest == <<rlVars, rtVars, caVars, wVars, fpVars, elVars, plVars>>

elRest == <<rlVars, caVars, wVars, fpVars, rsVars, plVars>>

plRest == <<now, store, rlVars, rtVars, caVars, wVars, fpVars, rsVars, elVars>>

vars == <<now, store, rlVars, rtVars, caVars, wVars, extVars>>

(***************************************************************************)
(* Bounds of the model.                                                    *)
(***************************************************************************)
MaxTime == 4
MaxQuota == 2
MaxWindow == 2
MaxCalls == 4
MaxConcurrentCalls == 3
MaxRetries == 3
MaxDelay == 3
MaxTtl == 2
MaxResilientCalls == 3
MaxResilientRetries == 1
MaxOtherSteps == 2

Clients == {"c1", "c2"}
Tasks == {"t1", "t2"}

(***************************************************************************)
(* Python values handed to the cache, and their JSON serialization.        *)
(***************************************************************************)
PyStr(text) == [kind |-> "str", val |-> text]
PyInt(n) == [kind |-> "int", val |-> n]
PyNone == [kind |-> "NoneType", val |-> "None"]
PyList(items) == [kind |-> "list", val |-> items]
PyTuple(items) == [kind |-> "tuple", val |-> items]
\* A dict is its items in insertion order, each <<key, value>>.
PyDict(items) == [kind |-> "dict", val |-> items]
PySet(items) == [kind |-> "set", val |-> items]

\* The values the model hands to Cache.set.
CacheValues ==
    { PyStr("data"),
      PyDict(<< <<PyStr("test"), PyStr("data")>> >>),
      PyDict(<< <<PyInt(1), PyStr("data")>> >>),
      PyTuple(<<PyStr("data")>>),
      PySet(<<PyStr("data")>>) }

RECURSIVE JsonSerializable(_)
\* json.dumps raises TypeError for a value it cannot encode.
JsonSerializable(v) ==
    CASE v.kind \in {"str", "int", "NoneType"} -> TRUE
      [] v.kind \in {"list", "tuple"} ->
            \A i \in DOMAIN v.val : JsonSerializable(v.val[i])
      [] v.kind = "dict" ->
            \A i \in DOMAIN v.val :
                /\ v.val[i][1].kind \in {"str", "int", "NoneType"}
                /\ JsonSerializable(v.val[i][2])
      [] OTHER -> FALSE

\* json.dumps turns the keys of a dict into strings.
JsonKey(k) ==
    CASE k.kind = "str" -> k.val
      [] k.kind = "int" -> ToString(k.val)
      [] OTHER -> "null"

RECURSIVE JoinStrings(_, _)
\* ", ".join(parts)
JoinStrings(parts, sep) ==
    IF parts = <<>> THEN ""
    ELSE IF Len(parts) = 1 THEN parts[1]
    ELSE parts[1] \o sep \o JoinStrings(Tail(parts), sep)

RECURSIVE PyRepr(_)
\* repr(value), the text str() uses for the items of a container.
PyRepr(v) ==
    CASE v.kind = "str" -> "'" \o v.val \o "'"
      [] v.kind = "int" -> ToString(v.val)
      [] v.kind = "NoneType" -> "None"
      [] v.kind = "list" ->
            "[" \o JoinStrings([i \in DOMAIN v.val |-> PyRepr(v.val[i])], ", ") \o "]"
      [] v.kind = "tuple" ->
            "(" \o JoinStrings([i \in DOMAIN v.val |-> PyRepr(v.val[i])], ", ")
                \o (IF Len(v.val) = 1 THEN ",)" ELSE ")")
      [] v.kind = "dict" ->
            "{" \o JoinStrings([i \in DOMAIN v.val |->
                        PyRepr(v.val[i][1]) \o ": " \o PyRepr(v.val[i][2])], ", ") \o "}"
      [] v.kind = "set" ->
            IF v.val = <<>> THEN "set()"
            ELSE "{" \o JoinStrings([i \in DOMAIN v.val |-> PyRepr(v.val[i])], ", ") \o "}"
      [] OTHER -> v.val

\* str(value): a string is its own text, any other value its repr.
PyStrOf(v) == IF v.kind = "str" THEN v.val ELSE PyRepr(v)

JsonDumpsOfStr(v) == [kind |-> "string", val |-> PyStrOf(v)]

RECURSIVE JsonDumps(_)
\* json.dumps: the JSON document of a value.
JsonDumps(v) ==
    CASE v.kind = "str" -> [kind |-> "string", val |-> v.val]
      [] v.kind = "int" -> [kind |-> "number", val |-> v.val]
      [] v.kind = "NoneType" -> [kind |-> "null", val |-> "null"]
      [] v.kind \in {"list", "tuple"} ->
            [kind |-> "array", val |-> [i \in DOMAIN v.val |-> JsonDumps(v.val[i])]]
      [] v.kind = "dict" ->
            [kind |-> "object",
             val |-> [i \in DOMAIN v.val |->
                        <<JsonKey(v.val[i][1]), JsonDumps(v.val[i][2])>>]]

RECURSIVE JsonLoads(_)
\* json.loads: the value of a JSON document.
JsonLoads(d) ==
    CASE d.kind = "string" -> PyStr(d.val)
      [] d.kind = "number" -> PyInt(d.val)
      [] d.kind = "null" -> PyNone
      [] d.kind = "array" -> PyList([i \in DOMAIN d.val |-> JsonLoads(d.val[i])])
      [] d.kind = "object" ->
            PyDict([i \in DOMAIN d.val |->
                        <<PyStr(d.val[i][1]), JsonLoads(d.val[i][2])>>])

(***************************************************************************)
(* The shared keyed store.                                                 *)
(***************************************************************************)
RatePrefix == "rate_limit:"

RateKeyOfAllClients(client_id) == <<RatePrefix, "c1">>

RateKey(client_id) == <<RatePrefix, client_id>>

CachePrefix == "cache:"

GetCacheKeyInRateNamespace(key) == <<RatePrefix, key>>

\* Cache.get_cache_key: the prefix put before the key.
GetCacheKey(key) == <<CachePrefix, key>>

CacheKeyNames == {"test_key", "other_key"}

\* The arguments of a call of a cached function: the request object, whose
\* text is that of the object, and the article text.
RequestObject == [kind |-> "Request", val |-> "<Request object at 0x1>"]

WrapperInputs ==
    { [args |-> PyTuple(<<RequestObject, PyStr("a")>>), kwargs |-> PyDict(<<>>)],
      [args |-> PyTuple(<<RequestObject, PyStr("b")>>), kwargs |-> PyDict(<<>>)] }

FuncName == "summarize"

\* cache_key = f"cache:{func.__name__}:{str(args)}:{str(kwargs)}"
WrapperKey(x) ==
    <<CachePrefix, FuncName \o ":" \o PyStrOf(x.args) \o ":" \o PyStrOf(x.kwargs)>>

NoKey == [kind |-> "none"]

\* A key whose time to live has run out is gone.
Expired(entry, t) ==
    /\ entry.kind # "none"
    /\ entry.expireAt >= 0
    /\ entry.expireAt <= t

ExpireKeys(s, t) == [k \in DOMAIN s |-> IF Expired(s[k], t) THEN NoKey ELSE s[k]]

\* ZREMRANGEBYSCORE key lo hi: drops the members with lo <= score <= hi; a
\* sorted set left empty is removed.
ZRemRangeByScore(s, key, lo, hi) ==
    IF s[key].kind # "zset" THEN s
    ELSE LET kept == {e \in s[key].members : ~(lo <= e.score /\ e.score <= hi)}
         IN  [s EXCEPT ![key] = IF kept = {} THEN NoKey
                                ELSE [s[key] EXCEPT !.members = kept]]

\* ZADD key score member: a member already present only has its score set.
ZAdd(s, key, member, score) ==
    LET old == IF s[key].kind = "zset" THEN s[key].members ELSE {}
        ttl == IF s[key].kind = "zset" THEN s[key].expireAt ELSE -1
    IN  [s EXCEPT ![key] =
            [kind |-> "zset",
             members |-> {e \in old : e.member # member}
                            \cup {[member |-> member, score |-> score]},
             expireAt |-> ttl]]

ZCard(s, key) == IF s[key].kind = "zset" THEN Cardinality(s[key].members) ELSE 0

\* EXPIRE key seconds, issued at store time t.
Expire(s, key, seconds, t) ==
    IF s[key].kind = "none" THEN s
    ELSE [s EXCEPT ![key] = [s[key] EXCEPT !.expireAt = t + seconds]]

SetExKeepsFirst(s, key, data, seconds, t) ==
    IF s[key].kind = "string" THEN s
    ELSE [s EXCEPT ![key] = [kind |-> "string", data |-> data, expireAt |-> t + seconds]]

\* SET key data EX seconds, issued at store time t.
SetEx(s, key, data, seconds, t) ==
    [s EXCEPT ![key] = [kind |-> "string", data |-> data, expireAt |-> t + seconds]]

\* The reply of GET key: the stored bytes, or nil.
Nil == [kind |-> "nil"]

Get(s, key) == IF s[key].kind = "string" THEN s[key].data ELSE Nil

DelFlushesStore(s, key) == [k \in DOMAIN s |-> NoKey]

\* DEL key.
Del(s, key) == [s EXCEPT ![key] = NoKey]

\* A call that raised TypeError.
TypeError == [kind |-> "TypeError"]

(***************************************************************************)
(* RateLimiter.                                                            *)
(***************************************************************************)
\* _cleanup_old_requests: ZREMRANGEBYSCORE key 0 min_time, with min_time from
\* the clock as it was read, at t, before the command was awaited.
CleanupOldRequests(s, key, t) == ZRemRangeByScore(s, key, 0, t - time_window)

\* The member stored for a request is str(current_time), its score current_time.
RequestMember(current_time) == ToString(current_time)

\* The pipeline of check_rate_limit: ZADD, ZCARD, EXPIRE, executed together.
PipelineStore(s, key, current_time, t) ==
    Expire(ZAdd(s, key, RequestMember(current_time), current_time),
           key, time_window, t)

\* The Pipeline object of redis.asyncio.
PipelineObject == [kind |-> "Pipeline", val |-> 0]

\* request_count = await pipe.zcard(key): inside a pipeline the command is
\* only queued and the await gives back the Pipeline object.  The reply of
\* ZCARD is in the list pipe.execute() returns, which the code drops.
RequestCount(s, key, current_time) == PipelineObject

\* The statements after the pipeline: `request_count > self.max_requests`
\* raises TypeError for a request_count that is no number; otherwise
\* RateLimitError is raised or True returned.
Decision(request_count) ==
    IF request_count.kind # "int" THEN "TypeError"
    ELSE IF request_count.val > max_requests THEN "RateLimitError"
    ELSE "True"

LogEntry(client_id, current_time, request_count) ==
    [client |-> client_id, time |-> current_time,
     count |-> request_count, result |-> Decision(request_count)]

\* The calls begun so far.
CallsStarted == Len(rl_log) + Cardinality({u \in Tasks : rl_pc[u] # "idle"})

\* check_rate_limit as the steps between which the clock, other tasks and
\* other service instances can move.  The call runs up to its first wait:
\* current_time and the min_time of the cleanup are read from the clock and
\* ZREMRANGEBYSCORE is sent.
RLBegin(t, client_id) ==
    /\ rl_pc[t] = "idle"
    /\ rl_pc' = [rl_pc EXCEPT ![t] = "cleanup"]
    /\ rl_client' = [rl_client EXCEPT ![t] = client_id]
    /\ rl_time' = [rl_time EXCEPT ![t] = now]
    /\ UNCHANGED <<now, store, max_requests, time_window, rl_log>>
    /\ UNCHANGED <<rtVars, caVars, wVars, extVars>>

\* The store applies ZREMRANGEBYSCORE; the call queues ZADD, ZCARD and EXPIRE
\* and sends them with pipe.execute().
RLCleanup(t) ==
    /\ rl_pc[t] = "cleanup"
    /\ store' = CleanupOldRequests(store, RateKey(rl_client[t]), rl_time[t])
    /\ rl_pc' = [rl_pc EXCEPT ![t] = "pipeline"]
    /\ UNCHANGED <<now, max_requests, time_window, rl_client, rl_time, rl_log>>
    /\ UNCHANGED <<rtVars, caVars, wVars, extVars>>

\* The store applies the pipeline; the call goes on to its decision.
RLExecute(t) ==
    LET key == RateKey(rl_client[t])
    IN  /\ rl_pc[t] = "pipeline"
        /\ store' = PipelineStore(store, key, rl_time[t], now)
        /\ rl_log' = Append(rl_log,
                        LogEntry(rl_client[t], rl_time[t],
                                 RequestCount(store, key, rl_time[t])))
        /\ rl_pc' = [rl_pc EXCEPT ![t] = "idle"]
        /\ UNCHANGED <<now, max_requests, time_window, rl_client, rl_time>>
        /\ UNCHANGED <<rtVars, caVars, wVars, extVars>>

\* The clock advances; keys past their expiry disappear from the store.
Tick ==
    /\ now < MaxTime
    /\ now' = now + 1
    /\ store' = ExpireKeys(store, now + 1)
    /\ UNCHANGED <<rlVars, rtVars, caVars, wVars, extVars>>

NoException == [kind |-> "None", attempt |-> 0]

Keys ==
    {RateKey(c) : c \in Clients}
        \cup {GetCacheKey(k) : k \in CacheKeyNames}
        \cup {WrapperKey(x) : x \in WrapperInputs}

EmptyStore == [k \in Keys |-> NoKey]

\* No check_rate_limit call has been made.
StartRateLimiter ==
    /\ rl_pc = [t \in Tasks |-> "idle"]
    /\ rl_client = [t \in Tasks |-> "c1"]
    /\ rl_time = [t \in Tasks |-> 0]
    /\ rl_log = <<>>

\* The retry wrapper has just been entered: delay = initial_delay.
StartRetry ==
    /\ rt_pc = "call"
    /\ retry = 0
    /\ delay = initial_delay
    /\ last_exception = NoException
    /\ rt_outcomes = <<>>
    /\ rt_sleeps = <<>>
    /\ rt_raised = NoException
    /\ rt_returned = 0

RetryUnused ==
    /\ max_retries = 0
    /\ initial_delay = 1
    /\ max_delay = 1
    /\ backoff_factor = 1
    /\ StartRetry

RateLimiterUnused ==
    /\ max_requests = 1
    /\ time_window = 1
    /\ StartRateLimiter

NotWritten == [written |-> FALSE, key |-> "test_key"]

NotDeleted == [deleted |-> FALSE, key |-> "test_key", was_set |-> FALSE,
               others_changed |-> FALSE]

CacheUnused ==
    /\ default_ttl = 1
    /\ cache_result = Nil
    /\ cache_written = NotWritten
    /\ cache_deleted = NotDeleted

NoCall == [how |-> "none"]

StartWrapper ==
    /\ w_pc = [t \in Tasks |-> "idle"]
    /\ w_call = [t \in Tasks |-> NoCall]
    /\ w_last = NoCall
    /\ w_stored = [x \in WrapperInputs |-> -1]

WrapperUnused ==
    /\ w_ttl = 1
    /\ w_ready = TRUE
    /\ StartWrapper

FingerprintUnused ==
    /\ fp_calls = <<>>
    /\ fp_keys = <<>>

StartResilient ==
    /\ r_pc = [t \in Tasks |-> "idle"]
    /\ r_call = [t \in Tasks |-> NoCall]
    /\ r_last = NoCall
    /\ r_calls = 0

ResilientUnused ==
    /\ r_limiter = TRUE
    /\ StartResilient

\* The request has not been cancelled.
NoCancel == [requested |-> FALSE, attempts |-> 0, asleep |-> FALSE]

EventLoopUnused ==
    /\ el_wake = 0
    /\ o_steps = 0
    /\ el_cancel = NoCancel

\* The three coroutines process_article_text hands to asyncio.gather, in the
\* order of its tasks list.
Stages == <<"_generate_summary", "_extract_terminology", "_assess_quality">>

StageSet == {Stages[i] : i \in DOMAIN Stages}

NoRequest == [url |-> "None", text |-> "None", payload_type |-> "None"]

NoResponse == [status |-> 0]

StartPipeline ==
    /\ p_pc = "idle"
    /\ p_req = NoRequest
    /\ p_fetch = "none"
    /\ p_content = "None"
    /\ p_stage = [st \in StageSet |-> "idle"]
    /\ p_result = [st \in StageSet |-> "None"]
    /\ p_order = <<>>
    /\ p_response = NoResponse
    /\ p_error = [st \in StageSet |-> "None"]

ExtUnused ==
    /\ FingerprintUnused
    /\ ResilientUnused
    /\ EventLoopUnused
    /\ StartPipeline

InitRateLimiter ==
    /\ now = 0
    /\ store = EmptyStore
    /\ ExtUnused
    /\ max_requests \in 1..MaxQuota
    /\ time_window \in 1..MaxWindow
    /\ StartRateLimiter
    /\ RetryUnused
    /\ CacheUnused
    /\ WrapperUnused

\* Calls made one after the other, by one task.
NextRateLimiter ==
    \/ \E c \in Clients : CallsStarted < MaxCalls /\ RLBegin("t1", c)
    \/ RLCleanup("t1")
    \/ RLExecute("t1")
    \/ Tick

SpecRateLimiter == InitRateLimiter /\ [][NextRateLimiter]_vars

\* Calls of several tasks and instances, interleaved at the store.
NextConcurrent ==
    \/ \E t \in Tasks, c \in Clients :
            CallsStarted < MaxConcurrentCalls /\ RLBegin(t, c)
    \/ \E t \in Tasks : RLCleanup(t)
    \/ \E t \in Tasks : RLExecute(t)
    \/ Tick

SpecConcurrent == InitRateLimiter /\ [][NextConcurrent]_vars

(***************************************************************************)
(* retry_with_backoff.                                                     *)
(***************************************************************************)
\* What one invocation of the wrapped function can do: return, or raise an
\* exception of one of these classes.
ExceptionKinds == {"RetryableError", "RateLimitError", "NetworkError",
                   "ValueError", "Exception"}

Outcomes == {"return"} \cup ExceptionKinds

IsRetryableAnyException(kind) == TRUE

\* except retryable_exceptions, with the default (RetryableError,): the class
\* and its subclasses RateLimitError and NetworkError.
IsRetryable(kind) == kind \in {"RetryableError", "RateLimitError", "NetworkError"}

RetriesExhaustedOneEarly(r) == r + 1 >= max_retries

\* if retry == max_retries: the budget is used up.
RetriesExhausted(r) == r = max_retries

NextDelayUncapped(d) == d * backoff_factor

\* delay = min(delay * backoff_factor, max_delay)
NextDelay(d) ==
    IF d * backoff_factor < max_delay THEN d * backoff_factor ELSE max_delay

ReturnedResultOfFirst(attempt) == 1

\* return await func(*args, **kwargs): what the wrapper returns is the result
\* of the invocation of this pass.
ReturnedResult(attempt) == attempt

\* One pass of the loop body up to the sleep: the function is invoked.
RetryInvoke(outcome) ==
    LET attempt == Len(rt_outcomes) + 1
        e == [kind |-> outcome, attempt |-> attempt]
    IN  /\ rt_pc = "call"
        /\ retry <= max_retries
        /\ rt_outcomes' = Append(rt_outcomes, outcome)
        /\ rt_returned' = IF outcome = "return" THEN ReturnedResult(attempt)
                           ELSE rt_returned
        /\ IF outcome = "return"
           THEN /\ rt_pc' = "returned"
                /\ UNCHANGED <<last_exception, rt_raised>>
           ELSE IF IsRetryable(outcome)
           THEN /\ last_exception' = e
                /\ IF RetriesExhausted(retry)
                   THEN rt_pc' = "raised" /\ rt_raised' = e
                   ELSE rt_pc' = "sleep" /\ UNCHANGED rt_raised
           ELSE /\ rt_pc' = "raised"
                /\ rt_raised' = e
                /\ UNCHANGED last_exception
        /\ UNCHANGED <<max_retries, initial_delay, max_delay, backoff_factor,
                       retry, delay, rt_sleeps>>
        /\ UNCHANGED <<now, store, rlVars, caVars, wVars, extVars>>

\* time.sleep(delay), the new delay, and the next value of the loop variable.
RetrySleep ==
    /\ rt_pc = "sleep"
    /\ rt_sleeps' = Append(rt_sleeps, delay)
    /\ delay' = NextDelay(delay)
    /\ retry' = retry + 1
    /\ rt_pc' = "call"
    /\ UNCHANGED <<max_retries, initial_delay, max_delay, backoff_factor,
                   last_exception, rt_outcomes, rt_raised, rt_returned>>
    /\ UNCHANGED <<now, store, rlVars, caVars, wVars, extVars>>

\* The loop ends without a pass (range(max_retries + 1) is empty): the
\* statement after it raises last_exception, which is None, a TypeError.
RetryLoopEnd ==
    /\ rt_pc = "call"
    /\ retry > max_retries
    /\ rt_pc' = "raised"
    /\ rt_raised' = [kind |-> "TypeError", attempt |-> 0]
    /\ UNCHANGED <<max_retries, initial_delay, max_delay, backoff_factor,
                   retry, delay, last_exception, rt_outcomes, rt_sleeps,
                   rt_returned>>
    /\ UNCHANGED <<now, store, rlVars, caVars, wVars, extVars>>

InitRetry ==
    /\ now = 0
    /\ store = EmptyStore
    /\ ExtUnused
    /\ RateLimiterUnused
    /\ CacheUnused
    /\ WrapperUnused
    /\ max_retries \in -1..MaxRetries
    /\ initial_delay \in 1..MaxDelay
    /\ max_delay \in 1..MaxDelay
    /\ backoff_factor \in 1..2
    /\ StartRetry

NextRetry ==
    \/ \E o \in Outcomes : RetryInvoke(o)
    \/ RetrySleep
    \/ RetryLoopEnd

SpecRetry == InitRetry /\ [][NextRetry]_vars

(***************************************************************************)
(* The retry wrapper on the event loop, next to the task of another        *)
(* request.  The loop's one thread runs a task until it awaits.            *)
(***************************************************************************)
\* The thread holds the loop from the failure of the invocation to the return
\* of time.sleep(delay): the except clause, the test of retry, the warning
\* and time.sleep run without an await.
LoopBlocked == rt_pc \in {"sleep", "sleeping"}

\* time.sleep(delay) is entered.
SleepStart ==
    /\ rt_pc = "sleep"
    /\ rt_pc' = "sleeping"
    /\ el_wake' = now + delay
    /\ UNCHANGED <<max_retries, initial_delay, max_delay, backoff_factor, retry,
                   delay, last_exception, rt_outcomes, rt_sleeps, rt_raised,
                   rt_returned>>
    /\ UNCHANGED <<now, store, o_steps, el_cancel, elRest>>

\* time.sleep(delay) returns after delay seconds; the new delay, and the
\* next value of the loop variable.
SleepEnd ==
    /\ rt_pc = "sleeping"
    /\ now >= el_wake
    /\ rt_sleeps' = Append(rt_sleeps, delay)
    /\ delay' = NextDelay(delay)
    /\ retry' = retry + 1
    /\ rt_pc' = "call"
    /\ UNCHANGED <<max_retries, initial_delay, max_delay, backoff_factor,
                   last_exception, rt_outcomes, rt_raised, rt_returned>>
    /\ UNCHANGED <<now, store, elVars, elRest>>

\* The loop runs the task of another request up to its next await.
OtherTaskStep ==
    /\ ~LoopBlocked
    /\ o_steps' = (o_steps + 1) % MaxOtherSteps
    /\ UNCHANGED <<now, store, el_wake, el_cancel, rtVars, elRest>>

\* The client disconnects and the request is to be cancelled: the event
\* comes from outside, at any moment of the call.  It records how many
\* invocations had been made and whether the wrapper was inside time.sleep.
CancelRequest ==
    /\ rt_pc \in {"call", "sleep", "sleeping"}
    /\ ~el_cancel.requested
    /\ el_cancel' = [requested |-> TRUE, attempts |-> Len(rt_outcomes),
                     asleep |-> rt_pc = "sleeping"]
    /\ UNCHANGED <<now, store, el_wake, o_steps, rtVars, elRest>>

\* A pass of the loop body of a cancelled task: the wrapper has no await but
\* `await func(...)`, so the function is invoked and CancelledError is thrown
\* into the task where the function first suspends.  CancelledError is no
\* Exception: no except clause of the wrapper catches it.
RetryInvokeCancelled ==
    LET attempt == Len(rt_outcomes) + 1
    IN  /\ rt_pc = "call"
        /\ retry <= max_retries
        /\ el_cancel.requested
        /\ rt_outcomes' = Append(rt_outcomes, "CancelledError")
        /\ rt_pc' = "raised"
        /\ rt_raised' = [kind |-> "CancelledError", attempt |-> attempt]
        /\ UNCHANGED <<max_retries, initial_delay, max_delay, backoff_factor,
                       retry, delay, last_exception, rt_sleeps, rt_returned>>
        /\ UNCHANGED <<now, store, elVars, elRest>>

InitEventLoop ==
    /\ now = 0
    /\ store = EmptyStore
    /\ ExtUnused
    /\ RateLimiterUnused
    /\ CacheUnused
    /\ WrapperUnused
    /\ max_retries \in 0..MaxRetries
    /\ initial_delay \in 1..MaxDelay
    /\ max_delay \in 1..MaxDelay
    /\ backoff_factor \in 1..2
    /\ StartRetry

NextEventLoop ==
    \/ \E o \in Outcomes : RetryInvoke(o)
    \/ SleepStart
    \/ SleepEnd
    \/ OtherTaskStep
    \/ CancelRequest
    \/ RetryInvokeCancelled
    \/ Tick

SpecEventLoop == InitEventLoop /\ [][NextEventLoop]_vars

(***************************************************************************)
(* Cache.                                                                  *)
(***************************************************************************)
\* The ttl argument of Cache.set: None, or a number of seconds.
NoTtl == [given |-> FALSE, seconds |-> 0]

TtlArgs == {NoTtl} \cup {[given |-> TRUE, seconds |-> n] : n \in 0..MaxTtl}

\* ex = ttl or self.default_ttl
EffectiveTtl(ttl) ==
    IF ttl.given /\ ttl.seconds # 0 THEN ttl.seconds ELSE default_ttl

\* Cache.set: SET prefix+key json.dumps(value) EX (ttl or default_ttl).
\* json.dumps raising TypeError leaves the store as it was.
CacheSet(key, value, ttl) ==
    /\ IF JsonSerializable(value)
       THEN /\ store' = SetEx(store, GetCacheKey(key), JsonDumps(value),
                              EffectiveTtl(ttl), now)
            /\ cache_written' = [written |-> TRUE, key |-> key, value |-> value,
                                 ttl |-> ttl, at |-> now]
            /\ cache_deleted' = IF cache_deleted.key = key
                                 THEN NotDeleted ELSE cache_deleted
            /\ cache_result' = Nil
       ELSE /\ cache_result' = TypeError
            /\ UNCHANGED <<store, cache_written, cache_deleted>>
    /\ UNCHANGED <<now, default_ttl, rlVars, rtVars, wVars, extVars>>

\* Cache.get: the reply of GET prefix+key, None when the key is absent.
CacheGetReply(key) == Get(store, GetCacheKey(key))

CacheGet(key) ==
    /\ cache_result' = CacheGetReply(key)
    /\ UNCHANGED <<now, store, default_ttl, cache_written, cache_deleted, rlVars,
                   rtVars, wVars, extVars>>

\* Cache.delete: DEL prefix+key.
CacheDelete(key) ==
    /\ store' = Del(store, GetCacheKey(key))
    /\ cache_written' = IF cache_written.written /\ cache_written.key = key
                        THEN NotWritten ELSE cache_written
    /\ cache_deleted' =
            [deleted |-> TRUE, key |-> key,
             was_set |-> store[GetCacheKey(key)].kind = "string",
             others_changed |-> \E o \in Keys \ {GetCacheKey(key)} :
                                    store'[o] # store[o]]
    /\ cache_result' = Nil
    /\ UNCHANGED <<now, default_ttl, rlVars, rtVars, wVars, extVars>>

InitCache ==
    /\ now = 0
    /\ store = EmptyStore
    /\ ExtUnused
    /\ RateLimiterUnused
    /\ RetryUnused
    /\ WrapperUnused
    /\ default_ttl \in 1..MaxTtl
    /\ cache_result = Nil
    /\ cache_written = NotWritten
    /\ cache_deleted = NotDeleted

NextCache ==
    \/ \E k \in CacheKeyNames, v \in CacheValues, ttl \in TtlArgs : CacheSet(k, v, ttl)
    \/ \E k \in CacheKeyNames : CacheGet(k)
    \/ \E k \in CacheKeyNames : CacheDelete(k)
    \/ Tick

SpecCache == InitCache /\ [][NextCache]_vars

(***************************************************************************)
(* Cache.generate_key.                                                     *)
(***************************************************************************)
\* hashlib.md5(text.encode()).hexdigest(): the digest of a text.
Md5(text) == [kind |-> "md5", of |-> text]

\* The keyword names of the model, in the order sorted() puts them.
KwargNames == <<"lang", "text">>

Rank(name) == CHOOSE i \in DOMAIN KwargNames : KwargNames[i] = name

\* sorted(kwargs.items()): the items by ascending key.
SortedItems(items) ==
    LET all == {items[i] : i \in DOMAIN items}
    IN  [i \in 1..Len(items) |->
            CHOOSE it \in all :
                Cardinality({o \in all : Rank(o[1].val) < Rank(it[1].val)}) = i - 1]

\* Cache.generate_key(func_name, args, kwargs).
GenerateKey(func_name, args, kwargs) ==
    LET sorted == SortedItems(kwargs.val)
        key_parts ==
            <<func_name>>
            \o [i \in DOMAIN args.val |-> PyStrOf(args.val[i])]
            \o [i \in DOMAIN sorted |->
                    sorted[i][1].val \o ":" \o PyStrOf(sorted[i][2])]
    IN  Md5(JoinStrings(key_parts, "|"))

FuncNames == {"summarize", "explain"}

\* Positional arguments: texts, one of them with the separator of the key
\* parts in it, and a dict of options built in either order.
FingerprintArgs ==
    { PyTuple(<<PyStr("a")>>),
      PyTuple(<<PyStr("b")>>),
      PyTuple(<<PyStr("a"), PyStr("b")>>),
      PyTuple(<<PyStr("a|b")>>),
      PyTuple(<<PyDict(<< <<PyStr("x"), PyInt(1)>>, <<PyStr("y"), PyInt(2)>> >>)>>),
      PyTuple(<<PyDict(<< <<PyStr("y"), PyInt(2)>>, <<PyStr("x"), PyInt(1)>> >>)>>) }

\* Keyword arguments, supplied in either order.
FingerprintKwargs ==
    { PyDict(<<>>),
      PyDict(<< <<PyStr("lang"), PyStr("en")>> >>),
      PyDict(<< <<PyStr("lang"), PyStr("en")>>, <<PyStr("text"), PyStr("t")>> >>),
      PyDict(<< <<PyStr("text"), PyStr("t")>>, <<PyStr("lang"), PyStr("en")>> >>) }

FingerprintCalls ==
    [func_name : FuncNames, args : FingerprintArgs, kwargs : FingerprintKwargs]

\* One call of generate_key, for the next of the two calls.
FpGenerateKey ==
    /\ Len(fp_keys) < Len(fp_calls)
    /\ LET c == fp_calls[Len(fp_keys) + 1]
       IN  fp_keys' = Append(fp_keys, GenerateKey(c.func_name, c.args, c.kwargs))
    /\ UNCHANGED <<now, store, fp_calls, fpRest>>

InitFingerprint ==
    /\ now = 0
    /\ store = EmptyStore
    /\ RateLimiterUnused
    /\ RetryUnused
    /\ CacheUnused
    /\ WrapperUnused
    /\ ResilientUnused
    /\ EventLoopUnused
    /\ StartPipeline
    /\ fp_calls \in FingerprintCalls \X FingerprintCalls
    /\ fp_keys = <<>>

NextFingerprint == FpGenerateKey

SpecFingerprint == InitFingerprint /\ [][NextFingerprint]_vars

(***************************************************************************)
(* The cached decorator.                                                   *)
(***************************************************************************)
\* What a call of the wrapped function can return.
FuncResults ==
    { PyStr("summary"), PyStr(""),
      PyDict(<< <<PyStr("term"), PyStr("meaning")>> >>) }

\* The bytes SETEX stores: str(result).
ResultBytes(result) == [kind |-> "bytes", val |-> PyStrOf(result)]

\* if cached_result: the reply of GET is not None and not empty.
IsTruthy(reply) == reply # Nil /\ reply.val # ""

\* For the claims: a call for the same inputs has returned after storing its
\* result less than ttl ago.
StoredWithinTtl(x) == w_stored[x] >= 0 /\ now < w_stored[x] + w_ttl

FinishedCall(x, how, fresh, returned) ==
    [input |-> x, how |-> how, fresh |-> fresh, returned |-> returned]

WReturn(t, call) ==
    /\ w_last' = call
    /\ w_pc' = [w_pc EXCEPT ![t] = "idle"]
    /\ w_call' = [w_call EXCEPT ![t] = NoCall]

\* The wrapper runs up to its first wait.  Without a request or a redis
\* client it only calls the function; otherwise it sends GET cache_key and
\* returns the reply when that is truthy.
WCall(t, x) ==
    LET reply == Get(store, WrapperKey(x))
        fresh == StoredWithinTtl(x)
    IN  /\ w_pc[t] = "idle"
        /\ IF ~w_ready
           THEN /\ w_pc' = [w_pc EXCEPT ![t] = "plain"]
                /\ w_call' = [w_call EXCEPT ![t] = FinishedCall(x, "plain", fresh, Nil)]
                /\ UNCHANGED w_last
           ELSE IF IsTruthy(reply)
           THEN WReturn(t, FinishedCall(x, "hit", fresh, reply))
           ELSE /\ w_pc' = [w_pc EXCEPT ![t] = "invoke"]
                /\ w_call' = [w_call EXCEPT ![t] = FinishedCall(x, "miss", fresh, Nil)]
                /\ UNCHANGED w_last
        /\ UNCHANGED <<now, store, w_ttl, w_ready, w_stored, rlVars, rtVars, caVars, extVars>>

\* result = await func(*args, **kwargs), which returns a value.
WInvoke(t, result) ==
    /\ w_pc[t] \in {"invoke", "plain"}
    /\ IF w_pc[t] = "plain"
       THEN WReturn(t, [w_call[t] EXCEPT !.returned = result])
       ELSE /\ w_pc' = [w_pc EXCEPT ![t] = "setex"]
            /\ w_call' = [w_call EXCEPT ![t] = [w_call[t] EXCEPT !.returned = result]]
            /\ UNCHANGED w_last
    /\ UNCHANGED <<now, store, w_ttl, w_ready, w_stored, rlVars, rtVars, caVars, extVars>>

\* The function raises: the exception leaves the wrapper, nothing is stored.
WInvokeRaises(t) ==
    /\ w_pc[t] \in {"invoke", "plain"}
    /\ WReturn(t, [w_call[t] EXCEPT !.how = "raised"])
    /\ UNCHANGED <<now, store, w_ttl, w_ready, w_stored, rlVars, rtVars, caVars, extVars>>

\* await redis_client.setex(cache_key, ttl, str(result)); return result.
WSetex(t) ==
    /\ w_pc[t] = "setex"
    /\ store' = SetEx(store, WrapperKey(w_call[t].input),
                      ResultBytes(w_call[t].returned), w_ttl, now)
    /\ w_stored' = [w_stored EXCEPT ![w_call[t].input] = now]
    /\ WReturn(t, w_call[t])
    /\ UNCHANGED <<now, w_ttl, w_ready, rlVars, rtVars, caVars, extVars>>

InitCached ==
    /\ now = 0
    /\ store = EmptyStore
    /\ ExtUnused
    /\ RateLimiterUnused
    /\ RetryUnused
    /\ CacheUnused
    /\ w_ttl \in 1..MaxTtl
    /\ w_ready \in BOOLEAN
    /\ StartWrapper

NextCached ==
    \/ \E t \in Tasks, x \in WrapperInputs : WCall(t, x)
    \/ \E t \in Tasks, r \in FuncResults : WInvoke(t, r)
    \/ \E t \in Tasks : WInvokeRaises(t)
    \/ \E t \in Tasks : WSetex(t)
    \/ Tick

SpecCached == InitCached /\ [][NextCached]_vars

\* The decorator of a service with a redis client and a ttl of one second:
\* the calls of two tasks race on the entries.
InitRacingMisses ==
    /\ now = 0
    /\ store = EmptyStore
    /\ ExtUnused
    /\ RateLimiterUnused
    /\ RetryUnused
    /\ CacheUnused
    /\ w_ttl = 1
    /\ w_ready = TRUE
    /\ StartWrapper

SpecRacingMisses == InitRacingMisses /\ [][NextCached]_vars

(***************************************************************************)
(* Cache and the cached decorator on one store: both write under the       *)
(* prefix "cache:", so Cache.get can be asked for a key the decorator      *)
(* wrote with str(result).                                                 *)
(***************************************************************************)
\* The key Cache.get is given for the entry the decorator wrote for inputs x.
WrapperKeyName(x) == WrapperKey(x)[2]

InitSharedStore ==
    /\ now = 0
    /\ store = EmptyStore
    /\ ExtUnused
    /\ RateLimiterUnused
    /\ RetryUnused
    /\ CacheUnused
    /\ w_ttl \in 1..MaxTtl
    /\ w_ready = TRUE
    /\ StartWrapper

NextSharedStore ==
    \/ \E x \in WrapperInputs : WCall("t1", x)
    \/ \E r \in FuncResults : WInvoke("t1", r)
    \/ WInvokeRaises("t1")
    \/ WSetex("t1")
    \/ \E x \in WrapperInputs : CacheGet(WrapperKeyName(x))
    \/ Tick

SpecSharedStore == InitSharedStore /\ [][NextSharedStore]_vars

(***************************************************************************)
(* A resilient call: the rate_limit decorator around the cached decorator  *)
(* around the retry_with_backoff decorator around a stage function.        *)
(***************************************************************************)
\* The function the rate_limit decorator wraps.
WrappedByRateLimit == "cached"

\* The function the cached decorator wraps.
WrappedByCached == "retry_with_backoff"

\* Where a call of the wrapped function starts.
EntryOf(wrapped) == IF wrapped = "cached" THEN "lookup" ELSE "invoke"

\* What an invocation of the stage function can raise.
ResilientFailures == {"NetworkError", "ValueError"}

\* client_id = request.client.host
RequestHost == "c1"

\* await rate_limiter.check_rate_limit(client_id) raises, whatever the
\* exception, or the wrapper goes on to return await func(*args, **kwargs).
AfterAdmission(decision) ==
    IF decision # "True" THEN "raised" ELSE EntryOf(WrappedByRateLimit)

RStep(t, event) == [r_call[t] EXCEPT !.trace = Append(@, event)]

RReturn(t, call) ==
    /\ r_last' = call
    /\ r_pc' = [r_pc EXCEPT ![t] = "idle"]
    /\ r_call' = [r_call EXCEPT ![t] = NoCall]

\* rate_limit.wrapper: without a rate limiter in app.state the function is
\* called at once; otherwise check_rate_limit runs up to its first wait, with
\* current_time and the min_time of the cleanup read from the clock.
RAdmit(t, x) ==
    LET begun == [how |-> "running", input |-> x, trace |-> <<>>, returned |-> Nil,
                  retry |-> 0, delay |-> initial_delay]
    IN  /\ r_pc[t] = "idle"
        /\ r_calls < MaxResilientCalls
        /\ r_calls' = r_calls + 1
        /\ r_call' = [r_call EXCEPT ![t] = begun]
        /\ IF ~r_limiter
           THEN /\ r_pc' = [r_pc EXCEPT ![t] = EntryOf(WrappedByRateLimit)]
                /\ UNCHANGED rl_time
           ELSE /\ r_pc' = [r_pc EXCEPT ![t] = "cleanup"]
                /\ rl_time' = [rl_time EXCEPT ![t] = now]
        /\ UNCHANGED <<now, store, r_limiter, r_last>>
        /\ UNCHANGED <<max_requests, time_window, rl_pc, rl_client, rl_log>>
        /\ UNCHANGED <<rtVars, caVars, wVars, fpVars, elVars, plVars>>

\* The store applies the ZREMRANGEBYSCORE of check_rate_limit.
RCleanup(t) ==
    /\ r_pc[t] = "cleanup"
    /\ store' = CleanupOldRequests(store, RateKey(RequestHost), rl_time[t])
    /\ r_pc' = [r_pc EXCEPT ![t] = "pipeline"]
    /\ UNCHANGED <<now, r_limiter, r_call, r_last, r_calls, rsRest>>

\* The store applies the pipeline of check_rate_limit, which goes on to its
\* decision: an exception leaves the wrapper, True lets it call the function.
RDecide(t) ==
    LET key == RateKey(RequestHost)
        decision == Decision(RequestCount(store, key, rl_time[t]))
        checked == RStep(t, IF decision = "True" THEN "admitted" ELSE "refused")
    IN  /\ r_pc[t] = "pipeline"
        /\ store' = PipelineStore(store, key, rl_time[t], now)
        /\ IF AfterAdmission(decision) = "raised"
           THEN RReturn(t, [checked EXCEPT !.how = decision])
           ELSE /\ r_pc' = [r_pc EXCEPT ![t] = AfterAdmission(decision)]
                /\ r_call' = [r_call EXCEPT ![t] = checked]
                /\ UNCHANGED r_last
        /\ UNCHANGED <<now, r_limiter, r_calls, rsRest>>

\* cached.wrapper up to the function call: without a redis client it only
\* calls the function; otherwise GET cache_key, returned when truthy.
RLookup(t) ==
    LET reply == Get(store, WrapperKey(r_call[t].input))
    IN  /\ r_pc[t] = "lookup"
        /\ IF ~w_ready
           THEN /\ r_pc' = [r_pc EXCEPT ![t] = EntryOf(WrappedByCached)]
                /\ UNCHANGED <<r_call, r_last>>
           ELSE IF IsTruthy(reply)
           THEN RReturn(t, [RStep(t, "hit") EXCEPT !.how = "returned",
                                                   !.returned = reply])
           ELSE /\ r_pc' = [r_pc EXCEPT ![t] = EntryOf(WrappedByCached)]
                /\ r_call' = [r_call EXCEPT ![t] = RStep(t, "miss")]
                /\ UNCHANGED r_last
        /\ UNCHANGED <<now, store, r_limiter, r_calls, rsRest>>

\* A pass of the retry loop, return await func(*args, **kwargs), in which the
\* function returns: the cached wrapper goes on to the write, or, without a
\* redis client, returns the result.
RInvoke(t, result) ==
    LET called == [RStep(t, "invoke") EXCEPT !.returned = result]
    IN  /\ r_pc[t] = "invoke"
        /\ IF ~w_ready
           THEN RReturn(t, [called EXCEPT !.how = "returned"])
           ELSE /\ r_pc' = [r_pc EXCEPT ![t] = "setex"]
                /\ r_call' = [r_call EXCEPT ![t] = called]
                /\ UNCHANGED r_last
        /\ UNCHANGED <<now, store, r_limiter, r_calls, rsRest>>

\* A pass of the retry loop in which the function raises: a retryable
\* exception with retries left leads to the sleep, any other exception
\* leaves all the wrappers.
RInvokeRaises(t, kind) ==
    /\ r_pc[t] = "invoke"
    /\ IF IsRetryable(kind) /\ ~RetriesExhausted(r_call[t].retry)
       THEN /\ r_pc' = [r_pc EXCEPT ![t] = "sleep"]
            /\ r_call' = [r_call EXCEPT ![t] = RStep(t, "invoke")]
            /\ UNCHANGED r_last
       ELSE RReturn(t, [RStep(t, "invoke") EXCEPT !.how = "raised"])
    /\ UNCHANGED <<now, store, r_limiter, r_calls, rsRest>>

\* time.sleep(delay) of the retry loop: the clock moves on by delay; then the
\* new delay and the next value of the loop variable.
RSleep(t) ==
    /\ r_pc[t] = "sleep"
    /\ now + r_call[t].delay <= MaxTime
    /\ now' = now + r_call[t].delay
    /\ store' = ExpireKeys(store, now + r_call[t].delay)
    /\ r_call' = [r_call EXCEPT ![t].delay = NextDelay(@), ![t].retry = @ + 1]
    /\ r_pc' = [r_pc EXCEPT ![t] = "invoke"]
    /\ UNCHANGED <<r_limiter, r_last, r_calls, rsRest>>

\* await redis_client.setex(cache_key, ttl, str(result)); return result
RSetex(t) ==
    /\ r_pc[t] = "setex"
    /\ store' = SetEx(store, WrapperKey(r_call[t].input),
                      ResultBytes(r_call[t].returned), w_ttl, now)
    /\ RReturn(t, [RStep(t, "write") EXCEPT !.how = "returned"])
    /\ UNCHANGED <<now, r_limiter, r_calls, rsRest>>

InitResilient ==
    /\ now = 0
    /\ store = EmptyStore
    /\ max_requests \in 1..MaxQuota
    /\ time_window \in 1..MaxWindow
    /\ StartRateLimiter
    /\ max_retries \in 0..MaxResilientRetries
    /\ initial_delay = 1
    /\ max_delay = 2
    /\ backoff_factor = 2
    /\ StartRetry
    /\ CacheUnused
    /\ w_ttl \in 1..MaxTtl
    /\ w_ready \in BOOLEAN
    /\ StartWrapper
    /\ FingerprintUnused
    /\ EventLoopUnused
    /\ StartPipeline
    /\ r_limiter \in BOOLEAN
    /\ StartResilient

\* One caller's resilient calls, one after the other.
NextResilient ==
    \/ \E x \in WrapperInputs : RAdmit("t1", x)
    \/ RCleanup("t1")
    \/ RDecide("t1")
    \/ RLookup("t1")
    \/ \E r \in FuncResults : RInvoke("t1", r)
    \/ \E kind \in ResilientFailures : RInvokeRaises("t1", kind)
    \/ RSleep("t1")
    \/ RSetex("t1")
    \/ Tick

SpecResilient == InitResilient /\ [][NextResilient]_vars

(***************************************************************************)
(* main.py: the request model and process_workflow.  A field of the        *)
(* request body that is null or missing is written "None".                 *)
(***************************************************************************)
\* Settings.max_content_length
MaxContentLength == 100000

\* Settings.allowed_domains
AllowedDomains ==
    <<"nejm.org", "thelancet.com", "jamanetwork.com", "bmj.com",
      "mayoclinic.org", "health.harvard.edu">>

\* ', '.join(parts)
RECURSIVE JoinComma(_)
JoinComma(parts) ==
    IF parts = <<>> THEN ""
    ELSE IF Len(parts) = 1 THEN Head(parts)
    ELSE Head(parts) \o ", " \o JoinComma(Tail(parts))

NejmUrl == "https://www.nejm.org/doi/full/10.1056/NEJMoa2118542"

OtherUrl == "https://example.com/medical-study"

Urls == {"None", NejmUrl, OtherUrl, "invalid_url"}

ArticleText == "Exercise reduces cardiovascular risk."

LongText == "<a text of 100001 characters>"

Texts == {"None", "", ArticleText, LongText}

\* payload_type is no field of ArticleRequest: the model ignores it.
PayloadTypes == {"None", "url", "invalid"}

RequestBodies == [url : Urls, text : Texts, payload_type : PayloadTypes]

\* len(text)
TextLength(text) ==
    CASE text = "" -> 0
      [] text = LongText -> MaxContentLength + 1
      [] OTHER -> 37

\* Python truth of an optional string.
Truthy(v) == v \notin {"None", ""}

\* validators.url(v)
ValidUrlFormat(v) == v \in {NejmUrl, OtherUrl}

\* any(allowed in domain for allowed in settings.allowed_domains)
DomainAllowed(v) == v = NejmUrl

\* ArticleRequest.check_url_or_text, run before the fields are validated.
CheckUrlOrText(body) ==
    IF ~Truthy(body.url) /\ ~Truthy(body.text)
    THEN "Either url or text must be provided"
    ELSE IF Truthy(body.url) /\ Truthy(body.text)
    THEN "Only one of url or text should be provided"
    ELSE IF Truthy(body.text) /\ TextLength(body.text) > MaxContentLength
    THEN "Text content exceeds maximum length of "
             \o ToString(MaxContentLength) \o " characters"
    ELSE "ok"

\* ArticleRequest.validate_url
ValidateUrl(v) ==
    IF v = "None" THEN "ok"
    ELSE IF ~ValidUrlFormat(v) THEN "Invalid URL format"
    ELSE IF ~DomainAllowed(v)
    THEN "Domain not allowed. Allowed domains: " \o JoinComma(AllowedDomains)
    ELSE "ok"

\* The first validation error of the body, "ok" without one.
ValidationError(body) ==
    IF CheckUrlOrText(body) # "ok" THEN CheckUrlOrText(body)
    ELSE ValidateUrl(body.url)

\* raise HTTPException(status_code, detail)
HttpError(status_code, detail) == [status |-> status_code, detail |-> detail]

\* What fetch_article returns: a text with something other than blanks.
FetchedTexts == {ArticleText}

\* The messages of the ArticleFetchError: its own errors are caught by the
\* last handler of fetch_article and wrapped once more.  A timeout of the
\* session is an asyncio.TimeoutError, whose str() is empty.
FetchFailures == {"Unexpected error fetching article: Article not found",
                  "Unexpected error fetching article: No content found in article",
                  "Error fetching article: connection failed",
                  "Unexpected error fetching article: "}

\* The class of what fetch_article raises: both handlers raise
\* ArticleFetchError, whatever they caught.
FetchErrorClass(reason) == "ArticleFetchError"

\* The class of what process_article_text raises: its handler wraps every
\* exception in ArticleAnalysisError.
AnalysisErrorClass(message) == "ArticleAnalysisError"

\* The except clauses of process_workflow: the status of the HTTPException
\* each raises.
StatusOf(class) ==
    CASE class = "ArticleFetchError" -> 404
      [] class = "ArticleAnalysisError" -> 500
      [] class = "ValueError" -> 400
      [] OTHER -> 500

\* The detail of the last except clause of process_workflow.
InternalServerErrorDetail == "Internal server error"

\* The detail the except clauses of process_workflow put in the response.
DetailOf(class, message) ==
    IF class \in {"ArticleFetchError", "ArticleAnalysisError", "ValueError"}
    THEN message
    ELSE InternalServerErrorDetail

\* What an analysis coroutine returns.
StageTexts == {"text A", "text B"}

\* str(e) of what an analysis coroutine raises: a timeout of the completion
\* call, or a fault inside the coroutine.
StageFailures == {"Request timed out.", "'NoneType' object is not subscriptable"}

\* ArticleAnalysisError(f"Error processing article text: {str(e)}")
AnalysisErrorMessage(message) == "Error processing article text: " \o message

AfterFetchAlwaysAnalyzing(outcome) == "analyzing"

\* An ArticleFetchError leaves the try block for its handler; otherwise the
\* handler goes on with the content.
AfterFetch(outcome) == IF outcome = "raised" THEN "failed" ELSE "analyzing"

GatherNeverRaises(stage) == FALSE

\* asyncio.gather raises the first exception of its awaitables.
GatherRaises(stage) == \E st \in StageSet : stage[st] = "failed"

\* The coroutine whose exception gather raises: the first one that raised.
FirstRaised(stage, order) ==
    LET i == CHOOSE i \in DOMAIN order :
                 /\ stage[order[i]] = "failed"
                 /\ \A j \in 1..(i - 1) : stage[order[j]] # "failed"
    IN  order[i]

GatherResultsAsCompleted(result, order) ==
    [i \in DOMAIN Stages |-> result[order[i]]]

\* What asyncio.gather returns: the results in the order of its awaitables.
GatherResults(result, order) == [i \in DOMAIN Stages |-> result[Stages[i]]]

\* The dict process_article_text returns.
AssembleResult(results) ==
    [summary |-> results[1], terminology |-> results[2],
     quality_assessment |-> results[3]]

\* if not content: 400; otherwise process_article_text starts its three
\* coroutines with asyncio.gather.
Proceed(content) ==
    /\ p_content' = content
    /\ IF ~Truthy(content)
       THEN /\ p_response' = HttpError(400, "Empty article content")
            /\ p_pc' = "done"
            /\ UNCHANGED p_stage
       ELSE /\ p_stage' = [st \in StageSet |-> "running"]
            /\ p_pc' = "analyzing"
            /\ UNCHANGED p_response

\* A request arrives: the body is validated, then process_workflow runs up to
\* its first await.
PReceive(body) ==
    /\ p_pc = "idle"
    /\ p_req' = body
    /\ IF ValidationError(body) # "ok"
       THEN /\ p_response' = HttpError(422, ValidationError(body))
            /\ p_pc' = "done"
            /\ UNCHANGED <<p_fetch, p_content, p_stage>>
       ELSE IF Truthy(body.url)
       THEN /\ p_fetch' = "running"
            /\ p_pc' = "fetching"
            /\ UNCHANGED <<p_content, p_stage, p_response>>
       ELSE /\ Proceed(body.text)
            /\ UNCHANGED p_fetch
    /\ UNCHANGED <<p_result, p_order, p_error, plRest>>

\* fetch_article returns the text of the article.
PFetchReturns(text) ==
    /\ p_pc = "fetching"
    /\ p_fetch' = "returned"
    /\ Proceed(text)
    /\ UNCHANGED <<p_req, p_result, p_order, p_error, plRest>>

\* fetch_article raises ArticleFetchError, whatever went wrong.
PFetchRaises(reason) ==
    /\ p_pc = "fetching"
    /\ p_fetch' = "raised"
    /\ IF AfterFetch("raised") = "failed"
       THEN /\ p_response' = HttpError(StatusOf(FetchErrorClass(reason)),
                                        DetailOf(FetchErrorClass(reason), reason))
            /\ p_pc' = "done"
            /\ UNCHANGED <<p_content, p_stage>>
       ELSE Proceed(ArticleText)
    /\ UNCHANGED <<p_req, p_result, p_order, p_error, plRest>>

\* One of the three coroutines returns.
PStageReturns(st, text) ==
    /\ p_stage[st] = "running"
    /\ p_stage' = [p_stage EXCEPT ![st] = "done"]
    /\ p_result' = [p_result EXCEPT ![st] = text]
    /\ p_order' = Append(p_order, st)
    /\ UNCHANGED <<p_pc, p_req, p_fetch, p_content, p_response, p_error, plRest>>

\* One of the three coroutines raises an exception with this message.
PStageRaises(st, message) ==
    /\ p_stage[st] = "running"
    /\ p_stage' = [p_stage EXCEPT ![st] = "failed"]
    /\ p_error' = [p_error EXCEPT ![st] = message]
    /\ p_order' = Append(p_order, st)
    /\ UNCHANGED <<p_pc, p_req, p_fetch, p_content, p_result, p_response, plRest>>

\* gather raises: process_article_text raises ArticleAnalysisError and the
\* handler answers 500 with str(e) as the detail.
PGatherRaises ==
    /\ p_pc = "analyzing"
    /\ GatherRaises(p_stage)
    /\ LET message == p_error[FirstRaised(p_stage, p_order)]
           class == AnalysisErrorClass(message)
       IN  p_response' = HttpError(StatusOf(class),
                                   DetailOf(class, AnalysisErrorMessage(message)))
    /\ p_pc' = "done"
    /\ UNCHANGED <<p_req, p_fetch, p_content, p_stage, p_result, p_order, p_error,
                   plRest>>

\* gather returns: the handler returns the dict of the three results.
PGatherReturns ==
    /\ p_pc = "analyzing"
    /\ \A st \in StageSet : p_stage[st] \in {"done", "failed"}
    /\ ~GatherRaises(p_stage)
    /\ p_response' = [status |-> 200,
                      body |-> AssembleResult(GatherResults(p_result, p_order))]
    /\ p_pc' = "done"
    /\ UNCHANGED <<p_req, p_fetch, p_content, p_stage, p_result, p_order, p_error,
                   plRest>>

InitPipeline ==
    /\ now = 0
    /\ store = EmptyStore
    /\ RateLimiterUnused
    /\ RetryUnused
    /\ CacheUnused
    /\ WrapperUnused
    /\ FingerprintUnused
    /\ ResilientUnused
    /\ EventLoopUnused
    /\ StartPipeline

NextPipeline ==
    \/ \E body \in RequestBodies : PReceive(body)
    \/ \E text \in FetchedTexts : PFetchReturns(text)
    \/ \E reason \in FetchFailures : PFetchRaises(reason)
    \/ \E st \in StageSet, text \in StageTexts : PStageReturns(st, text)
    \/ \E st \in StageSet, message \in StageFailures : PStageRaises(st, message)
    \/ PGatherRaises
    \/ PGatherReturns

SpecPipeline == InitPipeline /\ [][NextPipeline]_vars

(***************************************************************************)
(* A RateLimiter and a Cache of one service, on the same store.            *)
(***************************************************************************)
InitNamespaces ==
    /\ now = 0
    /\ store = EmptyStore
    /\ ExtUnused
    /\ max_requests = 1
    /\ time_window = MaxWindow
    /\ StartRateLimiter
    /\ RetryUnused
    /\ WrapperUnused
    /\ default_ttl = MaxTtl
    /\ cache_result = Nil
    /\ cache_written = NotWritten
    /\ cache_deleted = NotDeleted

NextNamespaces ==
    \/ CallsStarted < MaxCalls /\ RLBegin("t1", RequestHost)
    \/ RLCleanup("t1")
    \/ RLExecute("t1")
    \/ CacheSet("test_key", PyStr("data"), NoTtl)
    \/ CacheGet("test_key")
    \/ CacheDelete("test_key")
    \/ Tick

SpecNamespaces == InitNamespaces /\ [][NextNamespaces]_vars

Spec == SpecRateLimiter

(***************************************************************************)
(* Claims about the rate limiter.                                          *)
(***************************************************************************)
CallsOf(client_id) == SelectSeq(rl_log, LAMBDA e : e.client = client_id)

Admitted(e) == e.result = "True"

EntriesInWindow(client_id) ==
    IF store[RateKey(client_id)].kind = "zset"
    THEN {e \in store[RateKey(client_id)].members : e.score >= now - time_window}
    ELSE {}

\* C1: starting from an empty window, the first max_requests calls of one
\* identity made within one time window are all admitted, and the next call
\* of that identity within the window fails with the rate-limit error.
C1_QuotaThenReject ==
    \A c \in Clients :
        LET l == CallsOf(c)
        IN  \A i \in 1..Len(l) :
                l[i].time - l[1].time < time_window =>
                    /\ i <= max_requests => Admitted(l[i])
                    /\ i = max_requests + 1 => ~Admitted(l[i])

\* C2: once an admission decision is finalized, the number of stored entries
\* of an identity with timestamp >= now - time_window never exceeds
\* max_requests.
C2_WindowNeverExceedsQuota ==
    \A c \in Clients : Cardinality(EntriesInWindow(c)) <= max_requests

\* C3: an identity that has made max_requests calls or more is admitted again
\* by a call made once time_window has elapsed since all of them.
C3_AdmittedAfterWindow ==
    \A i \in DOMAIN rl_log :
        LET earlier == {j \in 1..(i - 1) : rl_log[j].client = rl_log[i].client}
        IN  (/\ Cardinality(earlier) >= max_requests
             /\ \A j \in earlier : rl_log[j].time + time_window <= rl_log[i].time)
                => Admitted(rl_log[i])

\* The step is one of another call than that of task t.
StepOfAnotherCall(t) == \E u \in Tasks \ {t} : rl_pc'[u] # rl_pc[u]

\* C4: purge, count, insert and expire-refresh of a call are one atomic unit
\* against the store: between the purge of a call and its pipeline no command
\* of another call is applied to the entries of its identity.
C4_PurgeAndPipelineAtomic ==
    [][\A t \in Tasks :
            (rl_pc[t] = "pipeline" /\ StepOfAnotherCall(t)) =>
                store'[RateKey(rl_client[t])] = store[RateKey(rl_client[t])]]_vars

(***************************************************************************)
(* Claims about the retry wrapper.                                         *)
(***************************************************************************)
RetryableClasses == {"RetryableError", "RateLimitError", "NetworkError"}

NonRetryableClasses == {"ValueError", "Exception"}

OnlyRetryableFailures ==
    \A i \in DOMAIN rt_outcomes : rt_outcomes[i] \in RetryableClasses

WrapperLeft == rt_pc \in {"returned", "raised"}

\* C5: for max_retries >= 0, a function that raises a retryable error on every
\* invocation is invoked exactly max_retries + 1 times, and the wrapper then
\* fails with the error of the last invocation.
C5_RetryBound ==
    (max_retries >= 0 /\ OnlyRetryableFailures) =>
        /\ Len(rt_outcomes) <= max_retries + 1
        /\ Len(rt_outcomes) = max_retries + 1 => rt_pc = "raised"
        /\ WrapperLeft =>
              /\ Len(rt_outcomes) = max_retries + 1
              /\ rt_raised = [kind |-> rt_outcomes[max_retries + 1],
                              attempt |-> max_retries + 1]

C5_Witness ==
    /\ max_retries >= 2
    /\ OnlyRetryableFailures
    /\ Len(rt_outcomes) = max_retries + 1
    /\ rt_pc = "raised"

\* C6: an invocation that raises a non-retryable error is the last one: the
\* wrapper does not sleep after it and propagates that error at once, whatever
\* max_retries is and however much of the budget is left; raised by the first
\* invocation, it leaves exactly one invocation and no sleep.
C6_NonRetryableShortCircuit ==
    \A k \in DOMAIN rt_outcomes :
        rt_outcomes[k] \in NonRetryableClasses =>
            /\ rt_pc = "raised"
            /\ Len(rt_outcomes) = k
            /\ Len(rt_sleeps) = k - 1
            /\ rt_raised = [kind |-> rt_outcomes[k], attempt |-> k]

C6_Witness ==
    /\ max_retries >= 2
    /\ rt_outcomes = <<"ValueError">>
    /\ rt_sleeps = <<>>
    /\ rt_pc = "raised"

(***************************************************************************)
(* Claims about the cache.                                                 *)
(***************************************************************************)
WrittenKeyReply == CacheGetReply(cache_written.key)

\* The TTL a Cache.set call asks for: its ttl argument, default_ttl without one.
RequestedTtl(ttl) == IF ttl.given THEN ttl.seconds ELSE default_ttl

RECURSIVE IsJsonValue(_)
\* None, numbers, strings, lists of such, and dicts of such with string keys.
IsJsonValue(v) ==
    CASE v.kind \in {"str", "int", "NoneType"} -> TRUE
      [] v.kind = "list" -> \A i \in DOMAIN v.val : IsJsonValue(v.val[i])
      [] v.kind = "dict" ->
            \A i \in DOMAIN v.val :
                v.val[i][1].kind = "str" /\ IsJsonValue(v.val[i][2])
      [] OTHER -> FALSE

\* C8 (as claimed): for every key and every value, Cache.set(key, value)
\* succeeds and a Cache.get(key) right after it returns a present result that
\* decodes back to value.
C8_RoundTripEveryValue ==
    /\ cache_result # TypeError
    /\ (cache_written.written /\ cache_written.at = now) =>
            /\ WrittenKeyReply # Nil
            /\ JsonLoads(WrittenKeyReply) = cache_written.value

\* C8 (amended): for every key and every JSON value (None, number, string,
\* list, dict with string keys), a Cache.get(key) right after
\* Cache.set(key, value) returns a present result that decodes back to value.
C8_RoundTripJsonValues ==
    (/\ cache_written.written
     /\ cache_written.at = now
     /\ IsJsonValue(cache_written.value)) =>
        /\ WrittenKeyReply # Nil
        /\ JsonLoads(WrittenKeyReply) = cache_written.value

C8_Witness ==
    /\ cache_written.written
    /\ cache_written.at = now
    /\ cache_written.value.kind = "dict"
    /\ IsJsonValue(cache_written.value)
    /\ cache_result = WrittenKeyReply
    /\ cache_result # Nil

\* C9: a key written by Cache.set with TTL t is present before t has elapsed
\* and absent at every time after t has elapsed, unless it is set again.
C9_ExpiresAfterTtl ==
    cache_written.written =>
        LET elapsed == now - cache_written.at
            t == RequestedTtl(cache_written.ttl)
        IN  /\ elapsed < t => WrittenKeyReply # Nil
            /\ elapsed > t => WrittenKeyReply = Nil

\* C10: every cache entry in the store has an expiry; a set without a TTL gets
\* default_ttl and a set with an explicit TTL gets exactly that TTL.
C10_TtlAlwaysApplied ==
    /\ \A k \in CacheKeyNames :
            store[GetCacheKey(k)].kind = "string" =>
                store[GetCacheKey(k)].expireAt >= 0
    /\ (/\ cache_written.written
        /\ store[GetCacheKey(cache_written.key)].kind = "string") =>
            store[GetCacheKey(cache_written.key)].expireAt =
                cache_written.at + RequestedTtl(cache_written.ttl)

\* C11: after Cache.set(key, v) and then Cache.delete(key), Cache.get(key)
\* returns None, and the delete left the entry of every other key as it was.
C11_DeleteRemovesOnlyThatKey ==
    cache_deleted.deleted =>
        /\ CacheGetReply(cache_deleted.key) = Nil
        /\ ~cache_deleted.others_changed

C11_Witness ==
    /\ cache_deleted.deleted
    /\ cache_deleted.was_set
    /\ cache_result = Nil
    /\ \E o \in CacheKeyNames \ {cache_deleted.key} : CacheGetReply(o) # Nil

\* The JSON documents json.dumps writes.
JsonDocumentKinds == {"string", "number", "null", "array", "object"}

\* Of the texts str() yields for the values of the model, those json.loads
\* accepts: numbers, and the empty list and dict.
JsonTexts == {ToString(n) : n \in 0..9} \cup {"[]", "{}"}

\* json.loads(data) succeeds.
Deserializable(data) ==
    \/ data.kind \in JsonDocumentKinds
    \/ data.kind = "bytes" /\ data.val \in JsonTexts

\* C12: Cache.get returns None on a miss and when the stored entry cannot be
\* deserialized; what it returns otherwise is an entry json.loads accepts,
\* never a corrupted value.
C12_CorruptedEntryIsMiss ==
    cache_result # Nil => Deserializable(cache_result)

RECURSIVE PyEq(_, _)
\* Python's ==: dicts are equal when they map the same keys to equal values,
\* in whatever order they were built.
PyEq(a, b) ==
    IF a.kind # b.kind THEN FALSE
    ELSE IF a.kind = "dict"
    THEN /\ Len(a.val) = Len(b.val)
         /\ \A i \in DOMAIN a.val : \E j \in DOMAIN b.val :
                PyEq(a.val[i][1], b.val[j][1]) /\ PyEq(a.val[i][2], b.val[j][2])
    ELSE IF a.kind \in {"tuple", "list"}
    THEN /\ Len(a.val) = Len(b.val)
         /\ \A i \in DOMAIN a.val : PyEq(a.val[i], b.val[i])
    ELSE a = b

\* Same function name, equal positional inputs, equal keyword arguments.
LogicallyIdentical(c, d) ==
    /\ c.func_name = d.func_name
    /\ PyEq(c.args, d.args)
    /\ PyEq(c.kwargs, d.kwargs)

\* C13: Cache.generate_key returns the same fingerprint for two logically
\* identical calls (same function name, same inputs), whatever the order in
\* which the keyword arguments are supplied.
C13_SameFingerprint ==
    (Len(fp_keys) = 2 /\ LogicallyIdentical(fp_calls[1], fp_calls[2])) =>
        fp_keys[1] = fp_keys[2]

(***************************************************************************)
(* Claims about the cached decorator.                                      *)
(***************************************************************************)
WrapperCalls == {w_last} \cup {w_call[t] : t \in Tasks}

\* C7: a call made within the TTL after a call with the same inputs has
\* returned and stored its result does not invoke the function again: it is
\* served from the cache, whatever value the function had returned.
C7_SecondCallServedFromCache ==
    \A c \in WrapperCalls :
        (w_ready /\ c.how # "none" /\ c.fresh) => c.how = "hit"

(***************************************************************************)
(* Claims about a resilient call.                                          *)
(***************************************************************************)
ResilientCalls == {c \in {r_last} \cup {r_call[t] : t \in Tasks} : c.how # "none"}

\* The place of a step in the order admission, lookup, function, write.
StepRank(event) ==
    CASE event \in {"admitted", "refused"} -> 1
      [] event \in {"hit", "miss"} -> 2
      [] event = "invoke" -> 3
      [] event = "write" -> 4

Happened(c, event) == \E i \in DOMAIN c.trace : c.trace[i] = event

\* C14: the steps of a resilient call happen in the order admission check,
\* cache lookup, stage function (the passes of its retry loop), cache write:
\* the admission check is the first step of every call, the function runs
\* only after a lookup that was a miss, and the write follows the function.
\* A call refused admission (check_rate_limit raised) does nothing else: no
\* lookup, no function, no write.  A cache hit never runs the function.
C14_FixedStepOrder ==
    \A c \in ResilientCalls :
        /\ \A i, j \in DOMAIN c.trace :
                i < j => \/ StepRank(c.trace[i]) < StepRank(c.trace[j])
                         \/ c.trace[i] = "invoke" /\ c.trace[j] = "invoke"
        /\ c.trace # <<>> => StepRank(c.trace[1]) = 1
        /\ Happened(c, "refused") => c.trace = <<"refused">>
        /\ Happened(c, "hit") => ~Happened(c, "invoke") /\ ~Happened(c, "write")
        /\ Happened(c, "invoke") => Happened(c, "miss")
        /\ Happened(c, "write") => Happened(c, "invoke")

(***************************************************************************)
(* Claims about the retry wrapper on the event loop.                       *)
(***************************************************************************)
\* C15: while a wrapped call waits out its retry delay, the tasks of other
\* requests can still take steps.
C15_SleepSuspendsOnlyItsTask ==
    rt_pc = "sleeping" => ENABLED OtherTaskStep

\* C16: a RateLimitError is reported to the caller on its first occurrence:
\* the invocation that raised it is the last one, no sleep follows it, and it
\* is the exception that leaves the wrapper.
C16_QuotaFailureNotRetried ==
    \A i \in DOMAIN rt_outcomes :
        rt_outcomes[i] = "RateLimitError" =>
            /\ i = Len(rt_outcomes)
            /\ rt_pc = "raised"
            /\ rt_raised = [kind |-> "RateLimitError", attempt |-> i]

(***************************************************************************)
(* Claims about the pipeline.                                              *)
(***************************************************************************)
AnalysisInvoked == \E st \in StageSet : p_stage[st] # "idle"

\* C17 (as claimed): no analysis coroutine is started before fetch_article
\* has returned; when fetch_article fails the request ends in failure and no
\* analysis coroutine is ever started.
C17_NoAnalysisBeforeFetch ==
    /\ AnalysisInvoked => p_fetch = "returned"
    /\ p_fetch = "running" => ~AnalysisInvoked
    /\ p_fetch = "raised" =>
            /\ ~AnalysisInvoked
            /\ p_pc = "done"
            /\ p_response.status >= 400

\* C17 (amended): for a request by url, no analysis coroutine is started
\* before fetch_article has returned; when fetch_article fails the request
\* ends in failure and no analysis coroutine is ever started.  For a request
\* by text the analysis coroutines are started without any fetch.
C17_AnalysisAfterFetch ==
    /\ (AnalysisInvoked /\ Truthy(p_req.url)) => p_fetch = "returned"
    /\ (AnalysisInvoked /\ ~Truthy(p_req.url)) =>
            Truthy(p_req.text) /\ p_fetch = "none"
    /\ p_fetch = "running" => ~AnalysisInvoked
    /\ p_fetch = "raised" =>
            /\ ~AnalysisInvoked
            /\ p_pc = "done"
            /\ p_response.status >= 400

\* A request by url is answered 200: its three analysis coroutines were
\* started after fetch_article had returned.
C17_Witness ==
    /\ Truthy(p_req.url)
    /\ p_fetch = "returned"
    /\ \A st \in StageSet : p_stage[st] = "done"
    /\ p_pc = "done"
    /\ p_response.status = 200

\* C18: when one of the three analysis coroutines fails, the request fails
\* and its response carries no result of the coroutines that succeeded, in
\* whatever order the three finish.
C18_AllOrNothing ==
    (p_pc = "done" /\ \E st \in StageSet : p_stage[st] = "failed") =>
        /\ p_response.status = 500
        /\ DOMAIN p_response = {"status", "detail"}
        /\ \A st \in StageSet : p_response.detail # p_result[st]

\* The failure came after another coroutine had returned its result.
C18_Witness ==
    /\ p_pc = "done"
    /\ p_response.status = 500
    /\ Len(p_order) >= 2
    /\ p_stage[p_order[1]] = "done"
    /\ p_stage[p_order[2]] = "failed"

\* C19: the response of a completed request is sent only after all three
\* analysis coroutines have returned, in whatever order; it has exactly the
\* keys summary, terminology and quality_assessment, each with the result of
\* its own coroutine.
C19_JoinBeforeCompletion ==
    p_response.status = 200 =>
        /\ \A st \in StageSet : p_stage[st] = "done"
        /\ DOMAIN p_response.body = {"summary", "terminology", "quality_assessment"}
        /\ p_response.body.summary = p_result["_generate_summary"]
        /\ p_response.body.terminology = p_result["_extract_terminology"]
        /\ p_response.body.quality_assessment = p_result["_assess_quality"]

\* The coroutines finished in another order than they were started in, with
\* different results.
C19_Witness ==
    /\ p_response.status = 200
    /\ p_order = <<"_assess_quality", "_generate_summary", "_extract_terminology">>
    /\ p_result["_generate_summary"] # p_result["_assess_quality"]

\* C20: a request whose payload kind tag is not url is answered 400 and no
\* stage function, fetch or analysis, is invoked for it.
C20_UnsupportedPayloadRejected ==
    (p_pc # "idle" /\ p_req.payload_type = "invalid") =>
        /\ p_fetch = "none"
        /\ ~AnalysisInvoked
        /\ p_pc = "done"
        /\ p_response.status = 400

(***************************************************************************)
(* Claims about the failures of a request.                                 *)
(***************************************************************************)
\* The fetch failures that say the content is absent: the source answered
\* 404, or its page has no text.
NotFoundFailures ==
    {"Unexpected error fetching article: Article not found",
     "Unexpected error fetching article: No content found in article"}

FetchFailed == p_pc = "done" /\ p_fetch = "raised"

\* C21: a fetch that fails because the content is absent ends the request,
\* without another attempt, in a not-found response (404); a fetch that fails
\* for another reason, such as a network error, is not answered as not-found.
C21_OnlyAbsentContentIsNotFound ==
    FetchFailed =>
        (p_response.status = 404 <=> p_response.detail \in NotFoundFailures)

\* C22: when fetch_article fails with ArticleFetchError the request is
\* answered with status 400 and a detail that carries the message of the
\* error.
C22_FetchErrorAnswered400 ==
    FetchFailed =>
        /\ p_response.status = 400
        /\ p_response.detail \in FetchFailures

AnalysisFailed == p_pc = "done" /\ \E st \in StageSet : p_stage[st] = "failed"

\* C23: a fault inside an analysis coroutine is answered as a server failure
\* whose detail is one fixed text, the same for every fault: the detail does
\* not carry the message of the fault.
C23_GenericFailureDetail ==
    AnalysisFailed =>
        /\ p_response.status = 500
        /\ p_response.detail = InternalServerErrorDetail

FetchTimedOut == FetchFailed /\ p_response.detail = "Unexpected error fetching article: "

AnalysisTimedOut ==
    /\ AnalysisFailed
    /\ p_error[FirstRaised(p_stage, p_order)] = "Request timed out."

\* C24: a timeout of the fetch or of a completion call is raised as an
\* exception of a retryable class, which retry_with_backoff attempts again.
C24_TimeoutIsRetryable ==
    /\ FetchTimedOut => IsRetryable(FetchErrorClass(p_response.detail))
    /\ AnalysisTimedOut =>
            IsRetryable(AnalysisErrorClass(p_error[FirstRaised(p_stage, p_order)]))

(***************************************************************************)
(* Claims about the key namespaces.                                        *)
(***************************************************************************)
CacheStep ==
    \/ \E k \in CacheKeyNames, v \in CacheValues, ttl \in TtlArgs : CacheSet(k, v, ttl)
    \/ \E k \in CacheKeyNames : CacheGet(k)
    \/ \E k \in CacheKeyNames : CacheDelete(k)

RateLimitStep ==
    \/ \E t \in Tasks, c \in Clients : RLBegin(t, c)
    \/ \E t \in Tasks : RLCleanup(t)
    \/ \E t \in Tasks : RLExecute(t)

ChangedKeys == {k \in Keys : store'[k] # store[k]}

\* C25: every key a Cache operation touches starts with cache: and every key
\* a check_rate_limit call touches starts with rate_limit:, so that a Cache
\* operation changes no rate-window entry and a check changes no cache entry.
C25_NamespacesDisjoint ==
    [][/\ CacheStep =>
            /\ \A k \in ChangedKeys : k[1] = "cache:"
            /\ \A c \in Clients : store'[RateKey(c)] = store[RateKey(c)]
       /\ RateLimitStep =>
            /\ \A k \in ChangedKeys : k[1] = "rate_limit:"
            /\ \A k \in CacheKeyNames :
                    store'[GetCacheKey(k)] = store[GetCacheKey(k)]]_vars

\* Both kinds of entry are in the store: checks were made after the value was
\* written, and a value had been deleted before.
C25_Witness ==
    /\ cache_written.written
    /\ store[GetCacheKey(cache_written.key)].kind = "string"
    /\ Len(rl_log) >= 2
    /\ rl_log[Len(rl_log)].time >= cache_written.at
    /\ store[RateKey("c1")].kind = "zset"

(***************************************************************************)
(* Claims about the backoff of retry_with_backoff.                         *)
(***************************************************************************)
Min(a, b) == IF a <= b THEN a ELSE b

Max0(n) == IF n < 0 THEN 0 ELSE n

RECURSIVE BackoffSchedule(_)
\* The k-th element of the sequence that starts with initial_delay and goes
\* on with min(previous * backoff_factor, max_delay).
BackoffSchedule(k) ==
    IF k = 1 THEN initial_delay
    ELSE Min(BackoffSchedule(k - 1) * backoff_factor, max_delay)

\* C26: the sleep before retry k is the k-th element of the sequence that
\* starts with initial_delay and goes on with
\* min(delay * backoff_factor, max_delay); there is exactly one sleep between
\* two consecutive attempts and none after the last attempt.
C26_BackoffSchedule ==
    /\ \A k \in DOMAIN rt_sleeps : rt_sleeps[k] = BackoffSchedule(k)
    /\ Len(rt_sleeps) <= Max0(max_retries)
    /\ rt_pc = "call" => Len(rt_sleeps) = Len(rt_outcomes)
    /\ (rt_pc # "call" /\ Len(rt_outcomes) >= 1) =>
            Len(rt_sleeps) = Len(rt_outcomes) - 1

\* The wrapper gave up after three sleeps that grew up to the cap.
C26_Witness ==
    /\ rt_pc = "raised"
    /\ Len(rt_outcomes) = 4
    /\ Len(rt_sleeps) = 3
    /\ rt_sleeps[1] < rt_sleeps[2]
    /\ rt_sleeps[2] < rt_sleeps[3]
    /\ rt_sleeps[2] * backoff_factor > max_delay

(***************************************************************************)
(* Claims about the entries of the rate window.                            *)
(***************************************************************************)
MembersOf(s, key) == IF s[key].kind = "zset" THEN s[key].members ELSE {}

\* The step is a check_rate_limit call of this client with this result.
DecidedStep(client_id, result) ==
    /\ Len(rl_log') = Len(rl_log) + 1
    /\ rl_log'[Len(rl_log')].client = client_id
    /\ rl_log'[Len(rl_log')].result = result

\* The step is a check_rate_limit call of this client that is not admitted.
RejectedStep(client_id) ==
    \E result \in {"RateLimitError", "TypeError"} : DecidedStep(client_id, result)

\* C27: entries are inserted only on admission: the pipeline of a
\* check_rate_limit call that is not admitted adds nothing to the entries
\* its purge has left to its identity.
C27_RejectedCallInsertsNothing ==
    [][\A c \in Clients :
            RejectedStep(c) =>
                MembersOf(store', RateKey(c)) \subseteq MembersOf(store, RateKey(c))]_vars

AdmittedInWindow(client_id) ==
    {i \in DOMAIN rl_log :
        /\ rl_log[i].client = client_id
        /\ Admitted(rl_log[i])
        /\ rl_log[i].time >= now - time_window}

\* C28: one entry per admitted call: the number of entries of an identity
\* inside the window equals the number of its calls admitted in the window.
C28_OneEntryPerAdmittedCall ==
    \A c \in Clients :
        Cardinality(EntriesInWindow(c)) = Cardinality(AdmittedInWindow(c))

(***************************************************************************)
(* Claims about the end of the retry loop.                                 *)
(***************************************************************************)
\* C29: when the wrapped function fails with retryable errors on its first k
\* invocations, k <= max_retries, and returns on invocation k + 1, the
\* wrapper has invoked it exactly k + 1 times, has slept exactly k times and
\* returns the result of that invocation; none of the earlier failures
\* leaves the wrapper.
C29_EarlySuccessStopsLoop ==
    \A k \in 0..Max0(max_retries) :
        (/\ Len(rt_outcomes) >= k + 1
         /\ \A i \in 1..k : rt_outcomes[i] \in RetryableClasses
         /\ rt_outcomes[k + 1] = "return") =>
            /\ rt_pc = "returned"
            /\ Len(rt_outcomes) = k + 1
            /\ Len(rt_sleeps) = k
            /\ rt_returned = k + 1
            /\ rt_raised = NoException

\* The function returned on its last permitted invocation, after failures of
\* two classes.
C29_Witness ==
    /\ max_retries >= 2
    /\ rt_pc = "returned"
    /\ Len(rt_outcomes) = max_retries + 1
    /\ rt_outcomes[1] # rt_outcomes[2]
    /\ rt_returned = max_retries + 1

\* C30: for every configuration, each sleep of the wrapper between two
\* attempts lasts at most max_delay seconds, and the durations of the sleeps
\* never decrease.
C30_MaxDelayBoundsEverySleep ==
    \A k \in DOMAIN rt_sleeps :
        /\ rt_sleeps[k] <= max_delay
        /\ k > 1 => rt_sleeps[k - 1] <= rt_sleeps[k]

(***************************************************************************)
(* Claims about cancellation.                                              *)
(***************************************************************************)
\* C31: when the request is cancelled while the retry loop sleeps between
\* two attempts, the loop makes no further invocation of the function.
C31_CancelDuringSleepStopsRetries ==
    (el_cancel.requested /\ el_cancel.asleep) =>
        Len(rt_outcomes) = el_cancel.attempts

(***************************************************************************)
(* Claims about concurrent calls of a cached function.                     *)
(***************************************************************************)
\* The entries the decorator can have written whole.
WholeEntries == {ResultBytes(r) : r \in FuncResults}

\* C32: when identical calls run concurrently and all miss, each invokes the
\* function and writes the cache; after every write the entry of the inputs
\* holds the whole value of that write, the last one, never a mixed or
\* missing entry, and every caller is returned the result of its own
\* invocation.
C32_LastWriterWins ==
    [][/\ \A t \in Tasks :
            WSetex(t) =>
                /\ Get(store', WrapperKey(w_call[t].input)) =
                        ResultBytes(w_call[t].returned)
                /\ w_last'.how = "miss"
                /\ w_last'.input = w_call[t].input
                /\ w_last'.returned = w_call[t].returned
       /\ \A x \in WrapperInputs :
            Get(store', WrapperKey(x)) \in WholeEntries \cup {Nil}]_vars

\* Two calls for the same inputs both missed and their invocations returned
\* different results; one has written and returned, the other has written
\* over that entry and is the last to have returned.
C32_Witness ==
    \E t \in Tasks :
        /\ w_pc[t] = "setex"
        /\ w_call[t].how = "miss"
        /\ w_last.how = "miss"
        /\ w_last.input = w_call[t].input
        /\ w_last.returned # w_call[t].returned
        /\ IsTruthy(ResultBytes(w_last.returned))
        /\ w_stored[w_last.input] = now
        /\ Get(store, WrapperKey(w_last.input)) = ResultBytes(w_last.returned)

\* C33: the value the wrapper returns on a hit equals the result the function
\* had returned, and the wrapper had returned to its caller, on the miss that
\* wrote the entry, for a string as for a mapping.
C33_HitEqualsPopulatingMiss ==
    \A c \in WrapperCalls :
        c.how = "hit" =>
            \E r \in FuncResults :
                /\ ResultBytes(r) = c.returned
                /\ PyEq(c.returned, r)

(***************************************************************************)
(* Claims about the separation of fingerprints.                            *)
(***************************************************************************)
\* C34: for two calls that differ in the function name or in their
\* arguments (number, order or values of the positional and keyword
\* arguments) Cache.generate_key builds different key strings, hence
\* different keys.
C34_DifferentCallsDifferentKeys ==
    (Len(fp_keys) = 2 /\ ~LogicallyIdentical(fp_calls[1], fp_calls[2])) =>
        fp_keys[1].of # fp_keys[2].of

(***************************************************************************)
(* Claims about the isolation of identities.                               *)
(***************************************************************************)
\* The identity of the call of task t that takes the step.
SteppingClient(t) == IF rl_pc[t] = "idle" THEN rl_client'[t] ELSE rl_client[t]

\* The timestamps of the calls of the client, decided or under way.
OwnTimes(client_id) ==
    {rl_log[i].time : i \in {j \in DOMAIN rl_log : rl_log[j].client = client_id}}
        \cup {rl_time[t] : t \in {u \in Tasks : rl_pc[u] # "idle" /\ rl_client[u] = client_id}}

ScoresOf(client_id) == {e.score : e \in MembersOf(store, RateKey(client_id))}

\* C35: every step of a check_rate_limit call of one identity leaves the
\* window entries of every other identity unchanged, and the entries of an
\* identity are the timestamps of its own calls alone.
C35_IdentitiesIsolated ==
    [][/\ \A t \in Tasks :
            rl_pc'[t] # rl_pc[t] =>
                \A b \in Clients \ {SteppingClient(t)} :
                    store'[RateKey(b)] = store[RateKey(b)]
       /\ \A c \in Clients : ScoresOf(c)' \subseteq OwnTimes(c)']_vars

\* Both identities have called at the same time and have entries in the
\* store, and one of them has called again.
C35_Witness ==
    /\ Len(rl_log) >= 3
    /\ rl_log[1].client # rl_log[2].client
    /\ rl_log[1].time = rl_log[2].time
    /\ rl_log[3].time = rl_log[2].time
    /\ \A c \in Clients : store[RateKey(c)].kind = "zset"
    /\ \E c \in Clients : Cardinality(MembersOf(store, RateKey(c))) = 1

====
